---- MODULE Spec2Model ----
(***************************************************************************)
(* Model of the funding-rate arbitrage decision engine                     *)
(* (src/src/funding_rate_arbitrage_bot/arbitrage_engine.py).               *)
(*                                                                         *)
(* Three specifications share the module:                                  *)
(*   SpecWalk  the order-book walk _analyze_liquidity_and_slippage, one    *)
(*             loop iteration per step;                                    *)
(*   SpecEval  one call of _evaluate_opportunity on drawn inputs;          *)
(*   Spec      one find_opportunities scan.                                *)
(*                                                                         *)
(* Python floats are modelled as exact rationals [n, d] in lowest terms,   *)
(* d > 0; rounding error of the binary representation is not modelled.     *)
(***************************************************************************)
EXTENDS Integers, Sequences, FiniteSets, TLC

---------------------------------------------------------------------------
(* Exact arithmetic standing for the float operators of the source.        *)

Abs(x) == IF x < 0 THEN -x ELSE x

RECURSIVE GCD(_, _)
GCD(a, b) == IF b = 0 THEN a ELSE GCD(b, a % b)

\* the number n/d (d # 0) in lowest terms with a positive denominator
Rat(n, d) ==
    LET s == IF d < 0 THEN -1 ELSE 1
        g == GCD(Abs(n), Abs(d))
    IN  [n |-> (s * n) \div g, d |-> (s * d) \div g]

R(i) == [n |-> i, d |-> 1]
Zero == R(0)

RAdd(a, b) == Rat(a.n * b.d + b.n * a.d, a.d * b.d)
RSub(a, b) == Rat(a.n * b.d - b.n * a.d, a.d * b.d)
RMul(a, b) == Rat(a.n * b.n, a.d * b.d)
RDiv(a, b) == Rat(a.n * b.d, a.d * b.n)
RAbs(a)    == [n |-> Abs(a.n), d |-> a.d]
RLt(a, b)  == a.n * b.d < b.n * a.d
RLe(a, b)  == a.n * b.d <= b.n * a.d
RGt(a, b)  == RLt(b, a)
REq(a, b)  == a.n * b.d = b.n * a.d

---------------------------------------------------------------------------
(* _analyze_liquidity_and_slippage: the walk over one order-book side.     *)
(* A side is a sequence of levels <<price, amount>> (integers here),       *)
(* the running totals are rationals.                                       *)

Price(level)  == R(level[1])
Amount(level) == R(level[2])

\* order_value = price * amount
OrderValue(level) == RMul(Price(level), Amount(level))

\* if capital_remaining <= order_value
LevelCovers_strict(capital_remaining_, level) ==
    RLt(capital_remaining_, OrderValue(level))
LevelCovers(capital_remaining_, level) ==
    RLe(capital_remaining_, OrderValue(level))

\* the locals before the loop
WalkStart(capital) ==
    [total_cost |-> Zero, total_amount |-> Zero, capital_remaining |-> capital]

\* the branch that ends the walk inside a level
TakePartial(w, level) ==
    LET amount_to_take == RDiv(w.capital_remaining, Price(level))
    IN  [total_cost        |-> RAdd(w.total_cost, RMul(amount_to_take, Price(level))),
         total_amount      |-> RAdd(w.total_amount, amount_to_take),
         capital_remaining |-> Zero]

\* the branch that eats a whole level
TakeWhole(w, level) ==
    [total_cost        |-> RAdd(w.total_cost, OrderValue(level)),
     total_amount      |-> RAdd(w.total_amount, Amount(level)),
     capital_remaining |-> RSub(w.capital_remaining, OrderValue(level))]

\* the for loop from level i on
RECURSIVE WalkLoop(_, _, _)
WalkLoop(w, order_book_side, i) ==
    IF i > Len(order_book_side) THEN w
    ELSE IF LevelCovers(w.capital_remaining, order_book_side[i])
         THEN TakePartial(w, order_book_side[i])
         ELSE WalkLoop(TakeWhole(w, order_book_side[i]), order_book_side, i + 1)

\* if capital_remaining > 0: raise ValueError
LiquidityShort_ge(w) == RLe(Zero, w.capital_remaining)
LiquidityShort(w) == RGt(w.capital_remaining, Zero)

\* slippage = abs((avg_price - first_price) / first_price)
Slippage_noAbs(avg_price, first_price) ==
    RDiv(RSub(avg_price, first_price), first_price)
Slippage(avg_price, first_price) ==
    RAbs(RDiv(RSub(avg_price, first_price), first_price))

\* the statements after the loop
WalkResult(w, first_price) ==
    IF LiquidityShort(w)
    THEN [kind |-> "ValueError", why |-> "insufficient"]
    ELSE IF w.total_amount = Zero
    THEN [kind |-> "ok", avg_price |-> Zero, slippage |-> Zero]
    ELSE LET avg_price == RDiv(w.total_cost, w.total_amount)
         IN  [kind |-> "ok", avg_price |-> avg_price,
              slippage |-> Slippage(avg_price, first_price)]

\* the whole function
analyze_liquidity_and_slippage(order_book_side, capital) ==
    IF order_book_side = <<>>
    THEN [kind |-> "ValueError", why |-> "empty"]
    ELSE WalkResult(WalkLoop(WalkStart(capital), order_book_side, 1),
                    Price(order_book_side[1]))

---------------------------------------------------------------------------
(* _evaluate_opportunity.                                                  *)
(* A Python dict is a function; a missing key is a key outside DOMAIN.     *)
(* None, {} and [] are all falsy and are all the empty function <<>>.      *)

Falsy(x) == DOMAIN x = {}

\* dict.get(key): None when the key is absent
Get(dict, key) == IF key \in DOMAIN dict THEN dict[key] ELSE <<>>

\* if not order_book or not order_book.get('spot') or not order_book.get('swap')
BookUnusable(order_book) ==
    \/ Falsy(order_book)
    \/ Falsy(Get(order_book, "spot"))
    \/ Falsy(Get(order_book, "swap"))

\* spot_side / swap_side by direction
SpotSide_asks(direction) == "asks"
SpotSide(direction) == IF direction = "SHORT" THEN "asks" ELSE "bids"
SwapSide(direction) == IF direction = "SHORT" THEN "bids" ELSE "asks"

\* if spot_slippage > max_slippage or swap_slippage > max_slippage
SlippageTooHigh_spotOnly(spot_slippage, swap_slippage, max_slippage) ==
    RGt(spot_slippage, max_slippage)
SlippageTooHigh(spot_slippage, swap_slippage, max_slippage) ==
    RGt(spot_slippage, max_slippage) \/ RGt(swap_slippage, max_slippage)

\* data_fetcher.get_fee_rate(symbol, market, 'taker')
get_fee_rate(symbol, market) ==
    IF market = "spot" THEN Rat(1, 1000) ELSE Rat(1, 2000)

\* data_fetcher.fetch_earn_rates()
fetch_earn_rates ==
    [c \in {"USDT", "BTC", "ETH"} |->
        CASE c = "USDT" -> Rat(5, 100)
          [] c = "BTC"  -> Rat(1, 100)
          [] c = "ETH"  -> Rat(15, 1000)]

Symbols == {"BTC/USDT", "DOGE/USDT"}

\* symbol.split('/')[0]
BaseCurrency(symbol) ==
    CASE symbol = "BTC/USDT"  -> "BTC"
      [] symbol = "DOGE/USDT" -> "DOGE"

\* total_cost_apr = total_taker_fee_pct * 2 + slippage_cost_pct * 2
TotalCostApr_entryOnly(total_taker_fee_pct, slippage_cost_pct) ==
    RAdd(RMul(total_taker_fee_pct, R(2)), slippage_cost_pct)
TotalCostApr(total_taker_fee_pct, slippage_cost_pct) ==
    RAdd(RMul(total_taker_fee_pct, R(2)), RMul(slippage_cost_pct, R(2)))

\* if direction == 'SHORT' and enable_spot_earning: fetch_earn_rates is awaited
FetchesEarnRates(cfg, direction) ==
    direction = "SHORT" /\ cfg.enable_spot_earning

\* 3.3: the spot earning rate
SpotEarningRate_anyDirection(cfg, symbol, direction) ==
    IF cfg.enable_spot_earning
    THEN IF BaseCurrency(symbol) \in DOMAIN fetch_earn_rates
         THEN fetch_earn_rates[BaseCurrency(symbol)]
         ELSE Zero
    ELSE Zero
SpotEarningRate(cfg, symbol, direction) ==
    IF FetchesEarnRates(cfg, direction)
    THEN IF BaseCurrency(symbol) \in DOMAIN fetch_earn_rates
         THEN fetch_earn_rates[BaseCurrency(symbol)]
         ELSE Zero
    ELSE Zero

FundingPeriodsPerDay == 3
DaysPerYear == 365

\* funding_apr = abs(funding_rate) * 3 * 365
FundingApr(funding_rate) ==
    RMul(RAbs(funding_rate), R(FundingPeriodsPerDay * DaysPerYear))

\* steps 3 and 4: the cost and return figures
CostBenefit(cfg, symbol, funding_rate, direction, spot_slippage, swap_slippage) ==
    LET slippage_cost_pct    == RAdd(spot_slippage, swap_slippage)
        spot_taker_fee       == get_fee_rate(symbol, "spot")
        swap_taker_fee       == get_fee_rate(symbol, "swap")
        total_taker_fee_pct  == RAdd(spot_taker_fee, swap_taker_fee)
        spot_earning_rate    == SpotEarningRate(cfg, symbol, direction)
        borrow_interest_rate == Zero
        funding_apr          == FundingApr(funding_rate)
        total_cost_apr       == TotalCostApr(total_taker_fee_pct, slippage_cost_pct)
        net_apr == RSub(RSub(RAdd(funding_apr, spot_earning_rate), total_cost_apr),
                        borrow_interest_rate)
    IN  [slippage_cost_pct    |-> slippage_cost_pct,
         total_taker_fee_pct  |-> total_taker_fee_pct,
         spot_earning_rate    |-> spot_earning_rate,
         borrow_interest_rate |-> borrow_interest_rate,
         funding_apr          |-> funding_apr,
         net_apr              |-> net_apr]

\* if net_apr > min_return
PassesThreshold_ge(net_apr, min_return) == RLe(min_return, net_apr)
PassesThreshold(net_apr, min_return) == RGt(net_apr, min_return)

\* book[0][0] if book else 0
TopPrice(book_side) == IF Falsy(book_side) THEN Zero ELSE Price(book_side[1])

\* The outcomes of one call.  "None" carries the place of the return and,
\* as far as they were computed, the locals at that place; earn_calls counts
\* the calls of fetch_earn_rates the evaluation made.
NoLocals == [spot_slippage |-> Zero, swap_slippage |-> Zero, net_apr |-> Zero]

ReturnNone(why, locals) ==
    [kind |-> "None", why |-> why, locals |-> locals, earn_calls |-> 0]
RaiseKeyError(key) == [kind |-> "KeyError", key |-> key, earn_calls |-> 0]
ReturnDecision(d)  == [kind |-> "Decision", decision |-> d, earn_calls |-> 0]

\* step 5, the Decision is built (decision_reason, a formatted text, is left out)
BuildDecision(cfg, symbol, funding_rate, direction, capital_to_use, order_book, spot, swap, cb) ==
    IF "asks" \notin DOMAIN order_book["spot"] THEN RaiseKeyError("asks")
    ELSE IF "bids" \notin DOMAIN order_book["spot"] THEN RaiseKeyError("bids")
    ELSE IF "asks" \notin DOMAIN order_book["swap"] THEN RaiseKeyError("asks")
    ELSE IF "bids" \notin DOMAIN order_book["swap"] THEN RaiseKeyError("bids")
    ELSE ReturnDecision(
            [symbol                 |-> symbol,
             direction              |-> direction,
             leverage               |-> cfg.leverage,
             capital_to_use         |-> capital_to_use,
             estimated_funding_rate |-> funding_rate,
             spot_ask_price         |-> TopPrice(order_book["spot"]["asks"]),
             spot_bid_price         |-> TopPrice(order_book["spot"]["bids"]),
             swap_ask_price         |-> TopPrice(order_book["swap"]["asks"]),
             swap_bid_price         |-> TopPrice(order_book["swap"]["bids"]),
             avg_spot_price         |-> spot.avg_price,
             avg_swap_price         |-> swap.avg_price,
             spot_slippage          |-> spot.slippage,
             swap_slippage          |-> swap.slippage,
             net_apr                |-> cb.net_apr,
             trade_fee_cost         |-> cb.total_taker_fee_pct,
             slippage_cost          |-> cb.slippage_cost_pct,
             spot_earning_rate      |-> cb.spot_earning_rate,
             borrow_interest_rate   |-> cb.borrow_interest_rate])

\* from the slippage check to the end, both fills at hand
JudgeFills(cfg, symbol, funding_rate, direction, capital_to_use, order_book, spot, swap) ==
    LET cb == CostBenefit(cfg, symbol, funding_rate, direction,
                          spot.slippage, swap.slippage)
        locals == [spot_slippage |-> spot.slippage,
                   swap_slippage |-> swap.slippage,
                   net_apr       |-> cb.net_apr]
    IN  IF SlippageTooHigh(spot.slippage, swap.slippage, cfg.max_allowed_slippage)
        THEN ReturnNone("slippage", [locals EXCEPT !.net_apr = Zero])
        ELSE LET end == IF PassesThreshold(cb.net_apr, cfg.min_annualized_return)
                        THEN BuildDecision(cfg, symbol, funding_rate, direction,
                                           capital_to_use, order_book, spot,
                                           swap, cb)
                        ELSE ReturnNone("threshold", locals)
             IN  [end EXCEPT !.earn_calls =
                        IF FetchesEarnRates(cfg, direction) THEN 1 ELSE 0]

\* the whole coroutine; order_book is what fetch_l2_order_book(symbol) gave
evaluate_opportunity(cfg, symbol, funding_rate, direction, capital_to_use, order_book) ==
    IF BookUnusable(order_book) THEN ReturnNone("no_book", NoLocals)
    ELSE IF SpotSide(direction) \notin DOMAIN order_book["spot"]
    THEN RaiseKeyError(SpotSide(direction))
    ELSE LET spot == analyze_liquidity_and_slippage(
                        order_book["spot"][SpotSide(direction)], capital_to_use)
         IN  IF spot.kind = "ValueError" THEN ReturnNone("ValueError", NoLocals)
             ELSE IF SwapSide(direction) \notin DOMAIN order_book["swap"]
             THEN RaiseKeyError(SwapSide(direction))
             ELSE LET swap == analyze_liquidity_and_slippage(
                                order_book["swap"][SwapSide(direction)],
                                capital_to_use)
                  IN  IF swap.kind = "ValueError"
                      THEN ReturnNone("ValueError", NoLocals)
                      ELSE JudgeFills(cfg, symbol, funding_rate, direction,
                                      capital_to_use, order_book, spot, swap)

---------------------------------------------------------------------------
(* The inputs drawn for an evaluation: configurations and order books.     *)

\* AppConfig, the fields the engine reads
Configs ==
    [min_annualized_return         : {Rat(15, 100), Rat(1092, 1000)},
     capital_per_trade_ratio       : {Zero, Rat(1, 10), Rat(6, 10)},
     enable_negative_rate_strategy : BOOLEAN,
     enable_spot_earning           : BOOLEAN,
     max_allowed_slippage          : {Zero, Rat(1, 20), Rat(1, 10)},
     leverage                      : {R(3)}]

\* sides as an exchange lists them, best price first
AskSides == {<<>>, <<<<10, 100>>>>, <<<<10, 1>>, <<11, 5>>>>}
BidSides == {<<>>, <<<<10, 100>>>>, <<<<10, 1>>, <<9, 5>>>>}

\* the dicts over a subset of the keys asks, bids
Markets ==
    UNION {[K -> AskSides \cup BidSides] : K \in SUBSET {"asks", "bids"}}
UsualMarkets ==
    {m \in Markets : /\ "asks" \in DOMAIN m => m["asks"] \in AskSides
                     /\ "bids" \in DOMAIN m => m["bids"] \in BidSides}

\* the dicts over a subset of the keys spot, swap; <<>> is also None
Books == UNION {[K -> UsualMarkets] : K \in SUBSET {"spot", "swap"}}

FundingRates == {Rat(1, 1000), Rat(-1, 1000)}
EvalCapitals == {R(-21), R(0), R(21), R(100)}

---------------------------------------------------------------------------
(* SpecWalk: the walk as a step machine over drawn inputs.                 *)

MaxLevels == 2

WalkPrices  == {10, 11, 12}
WalkAmounts == {1, 5}
WalkLevels  == WalkPrices \X WalkAmounts
WalkSides   == UNION {[1..k -> WalkLevels] : k \in 0..MaxLevels}
WalkCapitals == {R(-5), R(0), R(10), R(21), R(32), R(50), R(65), R(66), R(200)}

VARIABLES
    \* the walk
    w_side,            \* order_book_side
    w_capital,         \* capital
    w_pc,              \* position in the function
    w_i,               \* index of the level the loop is at
    total_cost, total_amount, capital_remaining,
    w_out,             \* what the function returned or raised
    \* the engine
    config,            \* self.config
    \* one evaluation
    e_symbol, e_funding_rate, e_direction, e_capital,
    e_book,            \* what fetch_l2_order_book returns
    e_pc,
    e_out,             \* what the coroutine returned or raised
    \* one scan
    funding_rates,     \* what fetch_funding_rates returns, a sequence of rows
    total_balance,     \* what fetch_total_equity_usd returns
    pc,
    index,             \* the row the loop is at
    capital_per_trade,
    decisions,
    evals              \* the calls of _evaluate_opportunity made so far

wvars == <<w_side, w_capital, w_pc, w_i, total_cost, total_amount,
           capital_remaining, w_out>>
evars == <<e_symbol, e_funding_rate, e_direction, e_capital, e_book, e_pc, e_out>>
svars == <<funding_rates, total_balance, pc, index, capital_per_trade,
           decisions, evals>>
vars  == <<wvars, config, evars, svars>>

NoOut == [kind |-> "none"]

WalkIdle ==
    /\ w_side = <<>> /\ w_capital = Zero /\ w_pc = "idle" /\ w_i = 0
    /\ total_cost = Zero /\ total_amount = Zero /\ capital_remaining = Zero
    /\ w_out = NoOut

IdleConfig ==
    [min_annualized_return         |-> Rat(15, 100),
     capital_per_trade_ratio       |-> Rat(1, 10),
     enable_negative_rate_strategy |-> FALSE,
     enable_spot_earning           |-> TRUE,
     max_allowed_slippage          |-> Rat(1, 100),
     leverage                      |-> R(3)]

EvalIdle ==
    /\ e_symbol = "" /\ e_funding_rate = Zero /\ e_direction = ""
    /\ e_capital = Zero /\ e_book = <<>> /\ e_pc = "idle" /\ e_out = NoOut

ScanIdle ==
    /\ funding_rates = <<>> /\ total_balance = Zero /\ pc = "idle"
    /\ index = 0 /\ capital_per_trade = Zero /\ decisions = <<>> /\ evals = <<>>

InitWalk ==
    /\ config = IdleConfig /\ EvalIdle /\ ScanIdle
    /\ w_side \in WalkSides
    /\ w_capital \in WalkCapitals
    /\ w_pc = "entry" /\ w_i = 0
    /\ total_cost = Zero /\ total_amount = Zero /\ capital_remaining = Zero
    /\ w_out = NoOut

W == [total_cost |-> total_cost, total_amount |-> total_amount,
      capital_remaining |-> capital_remaining]

SetW(w) ==
    /\ total_cost' = w.total_cost
    /\ total_amount' = w.total_amount
    /\ capital_remaining' = w.capital_remaining

\* if not order_book_side: raise ValueError
WalkRaiseEmpty ==
    /\ w_pc = "entry" /\ w_side = <<>>
    /\ w_pc' = "raised"
    /\ w_out' = [kind |-> "ValueError", why |-> "empty"]
    /\ UNCHANGED <<w_side, w_capital, w_i, total_cost, total_amount, capital_remaining>>
    /\ UNCHANGED <<config, evars, svars>>

\* first_price, total_cost, total_amount, capital_remaining are set up
WalkBegin ==
    /\ w_pc = "entry" /\ w_side # <<>>
    /\ SetW(WalkStart(w_capital))
    /\ w_i' = 1 /\ w_pc' = "loop"
    /\ UNCHANGED <<w_side, w_capital, w_out>>
    /\ UNCHANGED <<config, evars, svars>>

\* one iteration, then-branch: partial take and break
WalkTakePartial ==
    /\ w_pc = "loop" /\ w_i <= Len(w_side)
    /\ LevelCovers(capital_remaining, w_side[w_i])
    /\ SetW(TakePartial(W, w_side[w_i]))
    /\ w_pc' = "after"
    /\ UNCHANGED <<w_side, w_capital, w_i, w_out>>
    /\ UNCHANGED <<config, evars, svars>>

\* one iteration, else-branch: the whole level
WalkTakeWhole ==
    /\ w_pc = "loop" /\ w_i <= Len(w_side)
    /\ ~LevelCovers(capital_remaining, w_side[w_i])
    /\ SetW(TakeWhole(W, w_side[w_i]))
    /\ w_i' = w_i + 1
    /\ UNCHANGED <<w_side, w_capital, w_pc, w_out>>
    /\ UNCHANGED <<config, evars, svars>>

\* the loop runs out of levels
WalkExhausted ==
    /\ w_pc = "loop" /\ w_i > Len(w_side)
    /\ w_i' = Len(w_side)
    /\ w_pc' = "after"
    /\ UNCHANGED <<w_side, w_capital, total_cost, total_amount, capital_remaining, w_out>>
    /\ UNCHANGED <<config, evars, svars>>

\* the statements after the loop
WalkFinish ==
    /\ w_pc = "after"
    /\ w_out' = WalkResult(W, Price(w_side[1]))
    /\ w_pc' = IF w_out'.kind = "ok" THEN "returned" ELSE "raised"
    /\ UNCHANGED <<w_side, w_capital, w_i, total_cost, total_amount, capital_remaining>>
    /\ UNCHANGED <<config, evars, svars>>

NextWalk ==
    \/ WalkRaiseEmpty
    \/ WalkBegin
    \/ WalkTakePartial
    \/ WalkTakeWhole
    \/ WalkExhausted
    \/ WalkFinish

SpecWalk == InitWalk /\ [][NextWalk]_vars

---------------------------------------------------------------------------
(* SpecEval: one call of _evaluate_opportunity on drawn inputs.            *)

InitEval ==
    /\ WalkIdle /\ ScanIdle
    /\ config \in {c \in Configs : /\ ~c.enable_negative_rate_strategy
                                   /\ c.capital_per_trade_ratio = Rat(1, 10)}
    /\ e_symbol \in Symbols
    /\ e_funding_rate \in FundingRates
    /\ e_direction \in {"SHORT", "LONG"}
    /\ e_capital \in EvalCapitals
    /\ e_book \in Books
    /\ e_pc = "called"
    /\ e_out = NoOut

Evaluate ==
    /\ e_pc = "called"
    /\ e_out' = evaluate_opportunity(config, e_symbol, e_funding_rate,
                                     e_direction, e_capital, e_book)
    /\ e_pc' = IF e_out'.kind = "KeyError" THEN "raised" ELSE "returned"
    /\ UNCHANGED <<e_symbol, e_funding_rate, e_direction, e_capital, e_book>>
    /\ UNCHANGED <<config, wvars, svars>>

NextEval == Evaluate

SpecEval == InitEval /\ [][NextEval]_vars

---------------------------------------------------------------------------
(* Spec: one find_opportunities scan.                                      *)

MaxRows == 2

\* the rows of the funding-rate frame: (symbol, rate)
Rows      == Symbols \X (FundingRates \cup {Zero})
Universes == UNION {[1..k -> Rows] : k \in 0..MaxRows}
Balances  == {R(0), R(210), R(1000)}

\* the scan draws from fewer books than SpecEval does: a market is one of
\* four shapes
ScanMarkets ==
    {[bids |-> <<<<10, 100>>>>],
     [asks |-> <<>>, bids |-> <<>>],
     [asks |-> <<<<10, 100>>>>, bids |-> <<<<10, 100>>>>],
     [asks |-> <<<<10, 1>>, <<11, 5>>>>, bids |-> <<<<10, 1>>, <<9, 5>>>>]}
ScanBooks == {b \in Books : \A m \in DOMAIN b : b[m] \in ScanMarkets}

Init ==
    /\ WalkIdle /\ EvalIdle
    /\ config \in Configs
    /\ funding_rates \in Universes
    /\ total_balance \in Balances
    /\ pc = "start"
    /\ index = 0 /\ capital_per_trade = Zero
    /\ decisions = <<>> /\ evals = <<>>

\* if funding_rates.empty: return []
ScanNoRates ==
    /\ pc = "start" /\ funding_rates = <<>>
    /\ pc' = "done"
    /\ UNCHANGED <<funding_rates, total_balance, index, capital_per_trade,
                   decisions, evals>>
    /\ UNCHANGED <<config, wvars, evars>>

\* if total_balance == 0: return []
ScanNoBalance ==
    /\ pc = "start" /\ funding_rates # <<>>
    /\ total_balance = Zero
    /\ pc' = "done"
    /\ UNCHANGED <<funding_rates, total_balance, index, capital_per_trade,
                   decisions, evals>>
    /\ UNCHANGED <<config, wvars, evars>>

\* capital_per_trade = total_balance * capital_per_trade_ratio
ScanBegin ==
    /\ pc = "start" /\ funding_rates # <<>>
    /\ total_balance # Zero
    /\ capital_per_trade' = RMul(total_balance, config.capital_per_trade_ratio)
    /\ index' = 1
    /\ pc' = "loop"
    /\ UNCHANGED <<funding_rates, total_balance, decisions, evals>>
    /\ UNCHANGED <<config, wvars, evars>>

\* one call from the loop body and what the body does with its outcome;
\* after is the place the body goes on from
\* the capital of the Decisions accepted so far
RECURSIVE Committed(_)
Committed(ds) ==
    IF ds = <<>> THEN Zero
    ELSE RAdd(Head(ds).capital_to_use, Committed(Tail(ds)))

CallEvaluate_remaining(direction, order_book, after) ==
    LET row == funding_rates[index]
        left == RSub(total_balance, Committed(decisions))
        capital == IF RLe(capital_per_trade, left) THEN capital_per_trade ELSE left
        out == evaluate_opportunity(config, row[1], row[2], direction,
                                    capital, order_book)
    IN  /\ evals' = Append(evals, [index |-> index, symbol |-> row[1],
                                   funding_rate |-> row[2],
                                   direction |-> direction,
                                   capital |-> capital,
                                   kind |-> out.kind])
        /\ pc' = IF out.kind = "KeyError" THEN "raised" ELSE after
        /\ decisions' = IF out.kind = "Decision"
                        THEN Append(decisions, out.decision)
                        ELSE decisions
CallEvaluate_prepend(direction, order_book, after) ==
    LET row == funding_rates[index]
        out == evaluate_opportunity(config, row[1], row[2], direction,
                                    capital_per_trade, order_book)
    IN  /\ evals' = Append(evals, [index |-> index, symbol |-> row[1],
                                   funding_rate |-> row[2],
                                   direction |-> direction,
                                   capital |-> capital_per_trade,
                                   kind |-> out.kind])
        /\ pc' = IF out.kind = "KeyError" THEN "raised" ELSE after
        /\ decisions' = IF out.kind = "Decision"
                        THEN <<out.decision>> \o decisions
                        ELSE decisions
CallEvaluate(direction, order_book, after) ==
    LET row == funding_rates[index]
        out == evaluate_opportunity(config, row[1], row[2], direction,
                                    capital_per_trade, order_book)
    IN  /\ evals' = Append(evals, [index |-> index, symbol |-> row[1],
                                   funding_rate |-> row[2],
                                   direction |-> direction,
                                   capital |-> capital_per_trade,
                                   kind |-> out.kind])
        /\ pc' = IF out.kind = "KeyError" THEN "raised" ELSE after
        /\ decisions' = IF out.kind = "Decision"
                        THEN Append(decisions, out.decision)
                        ELSE decisions

\* if funding_rate > 0
WantsShort_ge(funding_rate) == RLe(Zero, funding_rate)
WantsShort(funding_rate) == RGt(funding_rate, Zero)

\* if funding_rate < 0 and enable_negative_rate_strategy
WantsLong(funding_rate, cfg) ==
    RLt(funding_rate, Zero) /\ cfg.enable_negative_rate_strategy

\* for index, row in funding_rates.iterrows(): the next row is taken
ScanRow ==
    /\ pc = "loop" /\ index <= Len(funding_rates)
    /\ pc' = "row_short"
    /\ UNCHANGED <<funding_rates, total_balance, index, capital_per_trade,
                   decisions, evals>>
    /\ UNCHANGED <<config, wvars, evars>>

\* the first if of the body holds: the SHORT evaluation
ScanEvaluateShort ==
    /\ pc = "row_short"
    /\ WantsShort(funding_rates[index][2])
    /\ \E order_book \in ScanBooks :
            CallEvaluate("SHORT", order_book, "row_long")
    /\ UNCHANGED <<funding_rates, total_balance, index, capital_per_trade>>
    /\ UNCHANGED <<config, wvars, evars>>

\* the first if of the body fails
ScanPassShort ==
    /\ pc = "row_short"
    /\ ~WantsShort(funding_rates[index][2])
    /\ pc' = "row_long"
    /\ UNCHANGED <<funding_rates, total_balance, index, capital_per_trade,
                   decisions, evals>>
    /\ UNCHANGED <<config, wvars, evars>>

\* the second if of the body holds: the LONG evaluation; the row is done
ScanEvaluateLong ==
    /\ pc = "row_long"
    /\ WantsLong(funding_rates[index][2], config)
    /\ \E order_book \in ScanBooks :
            CallEvaluate("LONG", order_book, "loop")
    /\ index' = IF pc' = "raised" THEN index ELSE index + 1
    /\ UNCHANGED <<funding_rates, total_balance, capital_per_trade>>
    /\ UNCHANGED <<config, wvars, evars>>

\* the second if of the body fails; the row is done
ScanPassLong ==
    /\ pc = "row_long"
    /\ ~WantsLong(funding_rates[index][2], config)
    /\ pc' = "loop"
    /\ index' = index + 1
    /\ UNCHANGED <<funding_rates, total_balance, capital_per_trade,
                   decisions, evals>>
    /\ UNCHANGED <<config, wvars, evars>>

\* return decisions
ScanReturn ==
    /\ pc = "loop" /\ index > Len(funding_rates)
    /\ pc' = "done"
    /\ UNCHANGED <<funding_rates, total_balance, index, capital_per_trade,
                   decisions, evals>>
    /\ UNCHANGED <<config, wvars, evars>>

Next ==
    \/ ScanNoRates
    \/ ScanNoBalance
    \/ ScanBegin
    \/ ScanRow
    \/ ScanEvaluateShort
    \/ ScanPassShort
    \/ ScanEvaluateLong
    \/ ScanPassLong
    \/ ScanReturn

Spec == Init /\ [][Next]_vars

---------------------------------------------------------------------------
(* Properties of the walk (SpecWalk).                                      *)

RECURSIVE Notional(_)
Notional(side) ==
    IF side = <<>> THEN Zero
    ELSE RAdd(OrderValue(Head(side)), Notional(Tail(side)))

WalkEnded == w_pc \in {"returned", "raised"}

\* best-to-worst: asks ascend, bids descend
Ascending(side)  == \A k \in 1..(Len(side) - 1) : side[k][1] <= side[k + 1][1]
Descending(side) == \A k \in 1..(Len(side) - 1) : side[k][1] >= side[k + 1][1]

RMin(a, b) == IF RLe(a, b) THEN a ELSE b
RMax(a, b) == IF RLe(a, b) THEN b ELSE a

\* C4: for a non-empty side and capital > 0 the walk raises the
\* insufficient-liquidity ValueError exactly when the side's total notional
\* (sum of price * amount) is below capital, and returns a fill otherwise,
\* capital equal to the total notional included.
C4_FailsIffNotionalShort ==
    (WalkEnded /\ w_side # <<>> /\ RGt(w_capital, Zero)) =>
        /\ (w_pc = "raised") <=> RLt(Notional(w_side), w_capital)
        /\ (w_pc = "raised") => w_out = [kind |-> "ValueError", why |-> "insufficient"]
        /\ (w_pc = "returned") => w_out.kind = "ok"

C4_Witness ==
    /\ w_pc = "returned" /\ Len(w_side) = 2
    /\ RGt(w_capital, Zero) /\ REq(Notional(w_side), w_capital)

C10_NonPositiveCapitalRejected ==
    (w_pc = "returned") =>
        (RGt(w_capital, Zero) /\ RGt(w_out.avg_price, Zero))

---------------------------------------------------------------------------
(* Properties of one evaluation (SpecEval).                                *)

EvalEnded == e_pc \in {"returned", "raised"}

\* C1: a Decision is returned only when net_apr is strictly above
\* min_annualized_return; an evaluation that gets to the threshold test with
\* net_apr <= threshold, equality included, returns None.
C1_DecisionOnlyAboveThreshold ==
    EvalEnded =>
        /\ e_out.kind = "Decision" =>
              RGt(e_out.decision.net_apr, config.min_annualized_return)
        /\ (e_out.kind = "None" /\ e_out.why = "threshold") =>
              RLe(e_out.locals.net_apr, config.min_annualized_return)

C1_Witness ==
    /\ e_pc = "returned" /\ e_out.kind = "None" /\ e_out.why = "threshold"
    /\ e_out.locals.net_apr = config.min_annualized_return

\* C2: every Decision has
\*   net_apr = |funding_rate| * 3 * 365 + spot_earning_rate
\*             - 2 * (spot fee + swap fee) - 2 * (spot + swap slippage)
\*             - borrow_interest_rate,
\* trade_fee_cost = spot fee + swap fee, slippage_cost = spot + swap slippage,
\* and the funding term is the same for a rate and its negation.
C2_NetAprFormula ==
    (EvalEnded /\ e_out.kind = "Decision") =>
        LET d       == e_out.decision
            fees    == RAdd(get_fee_rate(e_symbol, "spot"),
                            get_fee_rate(e_symbol, "swap"))
            slips   == RAdd(d.spot_slippage, d.swap_slippage)
            funding == RMul(RAbs(d.estimated_funding_rate), R(1095))
            negated == [d.estimated_funding_rate EXCEPT !.n = -@]
        IN  /\ d.estimated_funding_rate = e_funding_rate
            /\ d.trade_fee_cost = fees
            /\ d.slippage_cost = slips
            /\ d.net_apr = RSub(RSub(RSub(RAdd(funding, d.spot_earning_rate),
                                          RMul(R(2), fees)),
                                     RMul(R(2), slips)),
                                d.borrow_interest_rate)
            /\ FundingApr(d.estimated_funding_rate) = funding
            /\ FundingApr(negated) = funding

C2_Witness ==
    /\ e_pc = "returned" /\ e_out.kind = "Decision"
    /\ RGt(e_out.decision.spot_slippage, Zero)
    /\ RGt(e_out.decision.swap_slippage, Zero)
    /\ RGt(e_out.decision.spot_earning_rate, Zero)

\* the two fills of the sides the direction selects, when both exist
BothFillsOk ==
    /\ ~BookUnusable(e_book)
    /\ SpotSide(e_direction) \in DOMAIN e_book["spot"]
    /\ SwapSide(e_direction) \in DOMAIN e_book["swap"]
    /\ analyze_liquidity_and_slippage(
            e_book["spot"][SpotSide(e_direction)], e_capital).kind = "ok"
    /\ analyze_liquidity_and_slippage(
            e_book["swap"][SwapSide(e_direction)], e_capital).kind = "ok"

\* C3: when the walk's slippage of the spot leg or of the swap leg is
\* strictly above max_allowed_slippage the evaluation returns None, whatever
\* the funding income; slippage equal to the maximum is not rejected; so
\* every Decision has both slippages <= max_allowed_slippage.
C3_SlippageGate ==
    EvalEnded =>
        /\ e_out.kind = "Decision" =>
              /\ RLe(e_out.decision.spot_slippage, config.max_allowed_slippage)
              /\ RLe(e_out.decision.swap_slippage, config.max_allowed_slippage)
        /\ BothFillsOk =>
              LET spot == analyze_liquidity_and_slippage(
                              e_book["spot"][SpotSide(e_direction)], e_capital)
                  swap == analyze_liquidity_and_slippage(
                              e_book["swap"][SwapSide(e_direction)], e_capital)
                  over == \/ RGt(spot.slippage, config.max_allowed_slippage)
                          \/ RGt(swap.slippage, config.max_allowed_slippage)
              IN  /\ over => (e_out.kind = "None" /\ e_out.why = "slippage")
                  /\ ~over => ~(e_out.kind = "None" /\ e_out.why = "slippage")

C3_Witness ==
    /\ e_pc = "returned" /\ e_out.kind = "None" /\ e_out.why = "slippage"
    /\ RLe(e_out.locals.spot_slippage, config.max_allowed_slippage)
    /\ RGt(e_out.locals.swap_slippage, config.max_allowed_slippage)
    /\ RGt(config.max_allowed_slippage, Zero)

\* a book that is missing or incomplete for the direction at hand
IncompleteBook(order_book, direction) ==
    \/ BookUnusable(order_book)
    \/ \E m \in {"spot", "swap"} : \E k \in {"asks", "bids"} :
            k \notin DOMAIN order_book[m]
    \/ order_book["spot"][SpotSide(direction)] = <<>>
    \/ order_book["swap"][SwapSide(direction)] = <<>>

\* C8 (as claimed): whenever the order book is missing or incomplete (no
\* result, no spot or swap book, a book without its asks or bids entry, an
\* empty side the direction has to walk) the evaluation returns None and
\* does not raise.
C8_IncompleteBookIsSkipped ==
    (EvalEnded /\ IncompleteBook(e_book, e_direction)) =>
        (e_pc = "returned" /\ e_out.kind = "None")

---------------------------------------------------------------------------
(* Properties of one scan (Spec).                                          *)

EvalsOfRow(i) == SelectSeq(evals, LAMBDA e : e.index = i)

\* the rows whose body has run to its end
RowsDone == IF index = 0 THEN 0 ELSE index - 1

\* C6: per (symbol, rate) row the evaluator is called at most once: SHORT
\* iff rate > 0, LONG iff rate < 0 with the negative-rate strategy enabled,
\* not at all for rate = 0 or a negative rate with the strategy disabled;
\* every Decision is SHORT with a positive rate or LONG with a negative one.
C6_DirectionBySign ==
    /\ \A i \in 1..Len(funding_rates) :
          LET rate == funding_rates[i][2]
              seen == EvalsOfRow(i)
          IN  /\ Len(seen) <= 1
              /\ (rate.n = 0
                  \/ (rate.n < 0 /\ ~config.enable_negative_rate_strategy))
                 => seen = <<>>
              /\ i <= RowsDone =>
                    /\ (rate.n > 0) <=> (Len(seen) = 1 /\ seen[1].direction = "SHORT")
                    /\ (rate.n < 0 /\ config.enable_negative_rate_strategy)
                          <=> (Len(seen) = 1 /\ seen[1].direction = "LONG")
    /\ \A k \in 1..Len(evals) :
          /\ evals[k].funding_rate = funding_rates[evals[k].index][2]
          /\ evals[k].direction = "SHORT" => evals[k].funding_rate.n > 0
          /\ evals[k].direction = "LONG"  => evals[k].funding_rate.n < 0
    /\ \A k \in 1..Len(decisions) :
          \/ (decisions[k].direction = "SHORT"
                /\ decisions[k].estimated_funding_rate.n > 0)
          \/ (decisions[k].direction = "LONG"
                /\ decisions[k].estimated_funding_rate.n < 0)

C6_Witness ==
    /\ pc = "done" /\ Len(funding_rates) = 2 /\ Len(evals) = 2
    /\ Len(decisions) = 2
    /\ decisions[1].direction = "SHORT" /\ decisions[2].direction = "LONG"

\* C7 (as claimed): a symbol's failure (data gap, missing or partial order
\* book, insufficient liquidity, slippage above the ceiling) never aborts the
\* scan: find_opportunities raises no exception.
C7_ScanNeverRaises == pc # "raised"

\* C9 (as claimed): with an empty funding-rate universe or zero capital for
\* the scan no evaluation is attempted, and every evaluation that is made
\* gets a non-zero capital.
C9_NoEvaluationWithoutCapital ==
    /\ (funding_rates = <<>> \/ total_balance = Zero) => evals = <<>>
    /\ \A k \in 1..Len(evals) : evals[k].capital # Zero

\* the calls of the evaluator that gave a Decision, in call order
Accepted == SelectSeq(evals, LAMBDA e : e.kind = "Decision")

\* C11: the list find_opportunities builds is the subsequence of the
\* evaluator's non-None results in the order of the funding-rate rows: one
\* Decision per accepted call, none dropped or duplicated, the Decision of
\* an earlier row before the Decision of a later row, at most one per row
\* and direction.
C11_DecisionsInScanOrder ==
    /\ Len(decisions) = Len(Accepted)
    /\ \A k \in 1..Len(decisions) :
          k <= Len(Accepted) =>
              /\ decisions[k].symbol = Accepted[k].symbol
              /\ decisions[k].direction = Accepted[k].direction
              /\ decisions[k].estimated_funding_rate = Accepted[k].funding_rate
              /\ decisions[k].symbol = funding_rates[Accepted[k].index][1]
    /\ \A j, k \in 1..Len(Accepted) :
          j < k => Accepted[j].index < Accepted[k].index

C11_Witness ==
    /\ pc = "done" /\ Len(decisions) = 2
    /\ decisions[1].symbol = "DOGE/USDT" /\ decisions[2].symbol = "BTC/USDT"
    /\ funding_rates[1][1] = "DOGE/USDT" /\ funding_rates[2][1] = "BTC/USDT"

\* the sides a direction has to walk and the sides it leaves alone
WalkedKey(direction, market) ==
    IF (direction = "SHORT") <=> (market = "spot") THEN "asks" ELSE "bids"
UnwalkedKey(direction, market) ==
    IF (direction = "SHORT") <=> (market = "spot") THEN "bids" ELSE "asks"

\* the market with the side under key replaced, if it has that key
WithSide(market, key, side) ==
    IF key \in DOMAIN market THEN [market EXCEPT ![key] = side] ELSE market

\* e_book with other contents in the two sides the direction leaves alone
WithUnwalked(spot_other, swap_other) ==
    [e_book EXCEPT
        !["spot"] = WithSide(@, UnwalkedKey(e_direction, "spot"), spot_other),
        !["swap"] = WithSide(@, UnwalkedKey(e_direction, "swap"), swap_other)]

\* what an outcome says about the fills, the return figure and the result
Verdict(out) ==
    IF out.kind = "Decision"
    THEN <<out.kind, out.decision.avg_spot_price, out.decision.avg_swap_price,
           out.decision.spot_slippage, out.decision.swap_slippage,
           out.decision.net_apr>>
    ELSE IF out.kind = "None" THEN <<out.kind, out.why, out.locals>>
    ELSE <<out.kind>>

\* C12: SHORT fills the spot leg from the spot asks and the swap leg from
\* the swap bids, LONG fills the spot leg from the spot bids and the swap leg
\* from the swap asks; other levels in the two sides not selected change
\* neither the fills, the slippages, net_apr nor whether a Decision results.
C12_OnlySelectedSidesCount ==
    (EvalEnded /\ ~BookUnusable(e_book)) =>
        /\ e_out.kind = "Decision" =>
              LET spot == analyze_liquidity_and_slippage(
                            e_book["spot"][WalkedKey(e_direction, "spot")],
                            e_capital)
                  swap == analyze_liquidity_and_slippage(
                            e_book["swap"][WalkedKey(e_direction, "swap")],
                            e_capital)
              IN  /\ spot.kind = "ok" /\ swap.kind = "ok"
                  /\ e_out.decision.avg_spot_price = spot.avg_price
                  /\ e_out.decision.spot_slippage = spot.slippage
                  /\ e_out.decision.avg_swap_price = swap.avg_price
                  /\ e_out.decision.swap_slippage = swap.slippage
        /\ \A spot_other, swap_other \in AskSides \cup BidSides :
              Verdict(evaluate_opportunity(config, e_symbol, e_funding_rate,
                          e_direction, e_capital,
                          WithUnwalked(spot_other, swap_other)))
                  = Verdict(e_out)

C12_Witness ==
    /\ e_pc = "returned" /\ e_out.kind = "Decision" /\ e_direction = "LONG"
    /\ e_book["spot"]["asks"] = <<>>
    /\ e_book["swap"]["bids"] = <<<<10, 100>>>>
    /\ RGt(e_out.decision.spot_slippage, Zero)
    /\ RGt(e_out.decision.swap_slippage, Zero)

\* C13: capital_per_trade is total_equity * capital_per_trade_ratio, set once
\* per scan and never decremented: every call of the evaluator and every
\* Decision of the scan carries that same capital, however many Decisions
\* were accepted before, so the capital of the Decisions of one scan can add
\* up to more than the total equity.
C13_SameCapitalForEveryCandidate ==
    LET expected == Rat(total_balance.n * config.capital_per_trade_ratio.n,
                        total_balance.d * config.capital_per_trade_ratio.d)
    IN  /\ pc \in {"loop", "row_short", "row_long", "raised"}
              => capital_per_trade = expected
        /\ (pc = "done" /\ index > 0) => capital_per_trade = expected
        /\ \A k \in 1..Len(evals) : evals[k].capital = expected
        /\ \A k \in 1..Len(decisions) : decisions[k].capital_to_use = expected

C13_Witness ==
    /\ pc = "done" /\ Len(decisions) = 2
    /\ decisions[1].capital_to_use = decisions[2].capital_to_use
    /\ RGt(Committed(decisions), total_balance)

\* the earn rate the claim expects to enter net_apr: the one of the base
\* asset (BTC 0.01, none for DOGE) for SHORT with spot earning on, else 0
ExpectedYield ==
    IF e_direction = "SHORT" /\ config.enable_spot_earning
    THEN IF e_symbol = "BTC/USDT" THEN Rat(1, 100) ELSE Zero
    ELSE Zero

\* net_apr from the slippages and a yield rate, the taker fees being
\* 0.001 and 0.0005
NetAprWith(spot_slippage, swap_slippage, yield) ==
    RSub(RAdd(RMul(RAbs(e_funding_rate), R(1095)), yield),
         RAdd(RMul(R(2), Rat(3, 2000)),
              RMul(R(2), RAdd(spot_slippage, swap_slippage))))

\* C14: the yield rate enters net_apr only for SHORT with enable_spot_earning
\* true and is then the earn rate of the base asset, 0 when the asset has no
\* entry; for LONG and with enable_spot_earning false the yield rate in
\* net_apr and in the Decision is 0 and fetch_earn_rates is not called.
C14_YieldOnlyForShort ==
    EvalEnded =>
        /\ e_out.kind = "Decision" =>
              /\ e_out.decision.spot_earning_rate = ExpectedYield
              /\ e_out.decision.net_apr =
                    NetAprWith(e_out.decision.spot_slippage,
                               e_out.decision.swap_slippage, ExpectedYield)
              /\ e_out.earn_calls =
                    IF e_direction = "SHORT" /\ config.enable_spot_earning
                    THEN 1 ELSE 0
        /\ (e_out.kind = "None" /\ e_out.why = "threshold") =>
              e_out.locals.net_apr =
                    NetAprWith(e_out.locals.spot_slippage,
                               e_out.locals.swap_slippage, ExpectedYield)
        /\ (e_direction = "LONG" \/ ~config.enable_spot_earning) =>
              e_out.earn_calls = 0
        /\ e_out.earn_calls \in {0, 1}

C14_Witness ==
    /\ e_pc = "returned" /\ e_out.kind = "Decision"
    /\ e_direction = "LONG" /\ config.enable_spot_earning
    /\ e_symbol = "BTC/USDT"
    /\ e_out.decision.spot_earning_rate = Zero /\ e_out.earn_calls = 0

---------------------------------------------------------------------------
(* The budget of the walk (SpecWalk).                                      *)

\* notional and amount of the first k levels
RECURSIVE PrefixNotional(_, _)
PrefixNotional(side, k) ==
    IF k = 0 THEN Zero
    ELSE RAdd(PrefixNotional(side, k - 1), OrderValue(side[k]))

RECURSIVE PrefixAmount(_, _)
PrefixAmount(side, k) ==
    IF k = 0 THEN Zero
    ELSE RAdd(PrefixAmount(side, k - 1), Amount(side[k]))

====
